---- MODULE Spec2Model ----
(***************************************************************************)
(* The hotel reservation conversation controller (state_graph.py) driven   *)
(* by its two channel adapters (whatsapp_bot.py, agent.py).                *)
(*                                                                         *)
(* One turn = the adapter appends the user's message to the session state  *)
(* and calls app.ainvoke(state) on the compiled LangGraph graph.  The      *)
(* graph runs one node per superstep, starting at "chatbot"; after every   *)
(* node its outgoing (conditional) edge picks the next node or END.        *)
(*                                                                         *)
(* Runtime semantics of the graph library that the code relies on:         *)
(*  - the "messages" channel is declared with the reducer operator.add:    *)
(*    what a node returns under "messages" is appended to the channel;     *)
(*    every other key a node returns overwrites its channel;               *)
(*  - a conditional-edge function is handed a snapshot of the channels:    *)
(*    an assignment it makes to that snapshot reaches no channel;          *)
(*  - ainvoke(state) is called without a config, so the default recursion  *)
(*    limit applies: a run that has not reached END after that many        *)
(*    supersteps raises GraphRecursionError.                               *)
(***************************************************************************)
EXTENDS Integers, Sequences, FiniteSets, TLC

VARIABLES
    adapter,      \* "whatsapp" (process_message) or "voice" (_handle_user_input)
    session,      \* the AgentState the adapter keeps between turns
    state,        \* the graph's channels during a run of app.ainvoke
    pc,           \* "idle", the node about to run, "END" or "GraphRecursionError"
    steps,        \* supersteps (node executions) of the current run
    turn,         \* turns started so far
    faults,       \* failures of the external services injected so far
    llm_calls,    \* chat-completion calls of chatbot_node in the current turn
    avail_calls,  \* pms_client.check_availability calls in the current turn
    book_calls,   \* pms_client.create_booking calls in the current turn
    bookings,     \* every create_booking call of the conversation: <<room_id, outcome>>
    trace,        \* the nodes executed in the current turn, in order
    script,       \* the user texts the conversation follows; <<>> = any text
    dates_cleared, \* a validation failure cleared the dates in an earlier turn
    redis,        \* the Redis keyspace shared by the web workers: key -> JSON text
    workers,      \* the request each web worker is serving (process_message)
    call          \* a call of WhatsAppInputParser.parse_room_selection

vars == <<adapter, session, state, pc, steps, turn, faults,
          llm_calls, avail_calls, book_calls, bookings, trace, script, dates_cleared,
          redis, workers, call>>

----------------------------------------------------------------------------
(* Bounds of the model *)

\* Stands for the graph library's default recursion limit (scaled down).
RecursionLimit == 11
\* Turns of one conversation.
MaxTurns == 2
\* Failures of the chat backend / PMS gateway / extraction LLM per conversation.
MaxFaults == 1

----------------------------------------------------------------------------
(* Values *)

\* Python None for the string-valued fields.
None == "None"
\* Python None for the integer-valued fields (dates are day numbers here).
NoneInt == -1
\* available_rooms = None (distinct from the empty list).
NoneRooms == <<None>>

\* datetime.now().date() as a day number.
Today == 2
\* A token that matches \d{4}-\d{2}-\d{2} but is no calendar date (2026-13-45).
BadDate == 0
\* Maximum stay, nights.
MaxNights == 30

\* The mock PMS catalogue, in its order.
MockRooms == <<"room_101", "room_201", "room_301">>

RoomName(id) ==
    CASE id = "room_101" -> "Standard Room"
      [] id = "room_201" -> "Deluxe Suite"
      [] id = "room_301" -> "Presidential Suite"
      [] OTHER -> None

RoomMaxGuests(id) ==
    CASE id = "room_101" -> 2
      [] id = "room_201" -> 3
      [] id = "room_301" -> 4
      [] OTHER -> 0

----------------------------------------------------------------------------
(* Messages.  A message is [type, content]; the content of a user message  *)
(* is what the extraction code can see in its text:                        *)
(*   dates  - re.findall(r'(\d{4}-\d{2}-\d{2})', text), as day numbers     *)
(*   guests - DateExtractor.extract_guest_count(text)                      *)
(*   rooms  - the ids of the catalogue rooms whose name (lower-cased) or   *)
(*            id occurs in text.lower()                                    *)
(*   new    - "new" in text.lower() or "another" in text.lower()           *)
(* The content of an assistant message is the kind of text emitted.        *)
(***************************************************************************)

Text(kind, dates, guests, rooms, new) ==
    [kind |-> kind, dates |-> dates, guests |-> guests, rooms |-> rooms, new |-> new]

HumanMessage(c) == [type |-> "human", content |-> c]
AIMessage(kind) == [type |-> "ai", content |-> Text(kind, <<>>, NoneInt, {}, FALSE)]

\* The user texts of the model (the conversation scripts below add the
\* replies "Deluxe Suite" and "Jane Doe jane@example.com +15551234567").
UserTexts ==
    { Text("hello", <<>>, NoneInt, {}, FALSE),
      \* "2026-.. to 2026-.. for 2 guests": valid, one night
      Text("dates+guests", <<Today + 1, Today + 2>>, 2, {}, FALSE),
      \* the same for a party of 5 (no mock room is large enough)
      Text("dates+guests", <<Today + 1, Today + 2>>, 5, {}, FALSE),
      \* check-in yesterday
      Text("dates+guests", <<Today - 1, Today + 2>>, 2, {}, FALSE),
      \* dates, no guest count
      Text("dates", <<Today + 1, Today + 2>>, NoneInt, {}, FALSE),
      \* dates, a guest count, "Deluxe Suite" and the guest's details at once
      Text("all", <<Today + 1, Today + 2>>, 2, {"room_201"}, FALSE),
      \* "I'd like another booking"
      Text("another", <<>>, NoneInt, {}, TRUE) }

\* The happy path of the specification, turn by turn.
HappyPath ==
    << Text("dates+guests", <<Today + 1, Today + 2>>, 2, {}, FALSE),
       Text("room", <<>>, NoneInt, {"room_201"}, FALSE),
       Text("guest info", <<>>, NoneInt, {}, FALSE) >>

\* The same request made in a single message.
OneShot == << Text("all", <<Today + 1, Today + 2>>, 2, {"room_201"}, FALSE) >>

\* Date tokens around the validator's limits: no calendar date, yesterday,
\* today, the next days, and the days 30 and 31 nights from today.
DateTokens ==
    {BadDate, Today - 1, Today, Today + 1, Today + 2,
     Today + MaxNights, Today + MaxNights + 1}

\* One message "<check-in> to <check-out> for 2 guests" for every pair of tokens.
DateRequests ==
    { << Text("dates+guests", <<ci, co>>, 2, {}, FALSE) >> : ci, co \in DateTokens }

\* A request no mock room can take (party of 5), then a different valid date
\* pair: by itself, or with the party reduced to 2.
NewDatesAfterNoRooms ==
    { << Text("dates+guests", <<Today + 1, Today + 2>>, 5, {}, FALSE), second >> :
        second \in { Text("dates", <<Today + 2, Today + 3>>, NoneInt, {}, FALSE),
                     Text("dates+guests", <<Today + 2, Today + 3>>, 2, {}, FALSE) } }

\* The same invalid request made twice: check-in yesterday, or check-out on
\* the day of check-in.
RepeatedInvalidRequests ==
    { << Text("dates+guests", pair, 2, {}, FALSE),
         Text("dates+guests", pair, 2, {}, FALSE) >> :
        pair \in { <<Today - 1, Today + 2>>, <<Today + 1, Today + 1>> } }

\* Two consecutive messages with one date token each (the first with or
\* without a guest count), and one with three tokens.
SingleDateRequests ==
    { << Text("date", <<Today + 1>>, guests, {}, FALSE),
         Text("date", <<Today + 2>>, NoneInt, {}, FALSE) >> : guests \in {NoneInt, 2} }
    \cup { << Text("dates+guests", <<Today + 1, Today + 2, Today + 3>>, 2, {}, FALSE) >> }

\* "... for 0 guests", by itself and followed by "for 2 guests".
ZeroGuestRequests ==
    { << Text("dates+guests", <<Today + 1, Today + 2>>, 0, {}, FALSE) >>,
      << Text("dates+guests", <<Today + 1, Today + 2>>, 0, {}, FALSE),
         Text("guests", <<>>, 2, {}, FALSE) >> }

Scripts ==
    {HappyPath, OneShot} \cup DateRequests \cup NewDatesAfterNoRooms
        \cup RepeatedInvalidRequests \cup SingleDateRequests \cup ZeroGuestRequests

----------------------------------------------------------------------------
(* The session state *)

\* SessionManager._create_new_session / HotelVoiceAgent.__init__
NewSession ==
    [ messages            |-> <<>>,
      check_in_date       |-> NoneInt,
      check_out_date      |-> NoneInt,
      guest_count         |-> NoneInt,
      available_rooms     |-> NoneRooms,
      selected_room_id    |-> None,
      selected_room_name  |-> None,
      guest_name          |-> None,
      guest_email         |-> None,
      guest_phone         |-> None,
      special_requests    |-> None,
      booking_status      |-> None,
      confirmation_number |-> None,
      current_step        |-> None,
      needs_dates         |-> TRUE,
      needs_guest_info    |-> TRUE,
      ready_to_book       |-> FALSE ]

\* Python truthiness of the optional fields.
Truthy(v) == v /= None
TruthyInt(v) == v /= NoneInt /\ v /= 0
TruthyDate(v) == v /= NoneInt
TruthyRooms(v) == v /= NoneRooms /\ v /= <<>>

\* WhatsApp users: the phone numbers Twilio reports in "From".
Users == {"whatsapp:+15551234567", "whatsapp:+15557654321"}

\* whatsapp_webhook: user_id = from_number.replace('whatsapp:', '')
user_id_of(from_number) ==
    CASE from_number = "whatsapp:+15551234567" -> "+15551234567"
      [] from_number = "whatsapp:+15557654321" -> "+15557654321"

\* One session key for every user.
session_key_shared(user_id) == <<"whatsapp_session", "">>

\* f"whatsapp_session:{user_id}"
session_key(user_id) == <<"whatsapp_session", user_id>>

SessionKeys == { session_key(user_id_of(u)) : u \in Users }

\* redis.get of a key that is not there.
NoKey == <<"nil">>

\* The Redis keyspace with no session in it.
EmptyRedis == [k \in SessionKeys |-> NoKey]

\* The web workers (gunicorn.conf.py: workers; two of them here).
Workers == {"worker1", "worker2"}

\* A worker that is serving no request.
IdleWorker == [pc |-> "idle"]

\* No call of parse_room_selection has been made.
NoCall == [text |-> "", available_rooms |-> <<>>, result |-> "no call"]

Init ==
    /\ adapter \in {"whatsapp", "voice"}
    /\ session = NewSession
    /\ state = NewSession
    /\ pc = "idle"
    /\ steps = 0
    /\ turn = 0
    /\ faults = 0
    /\ llm_calls = 0
    /\ avail_calls = 0
    /\ book_calls = 0
    /\ bookings = <<>>
    /\ trace = <<>>
    /\ script = <<>>
    /\ dates_cleared = FALSE
    /\ redis = EmptyRedis
    /\ workers = [w \in Workers |-> IdleWorker]
    /\ call = NoCall

----------------------------------------------------------------------------
(* Helpers over the history *)

\* "for msg in reversed(state['messages']): if isinstance(msg, HumanMessage)"
RECURSIVE LastHumanFrom(_, _)
LastHumanFrom(msgs, i) ==
    IF i = 0 THEN Text("", <<>>, NoneInt, {}, FALSE)
    ELSE IF msgs[i].type = "human" THEN msgs[i].content
    ELSE LastHumanFrom(msgs, i - 1)

LastHuman(msgs) == LastHumanFrom(msgs, Len(msgs))

\* The messages channel: Annotated[Sequence[BaseMessage], add].
\* `returned` is the dict a node returns; its "messages" value is added to
\* the channel, its other values replace theirs.
ApplyUpdate(channels, returned) ==
    [returned EXCEPT !.messages = channels.messages \o returned.messages]

----------------------------------------------------------------------------
(* Date extraction and validation *)

\* extract_dates taking a single token as the check-in date, as
\* WhatsAppInputParser.extract_dates_and_guests does.
extract_dates_single_token(text) ==
    IF Len(text.dates) >= 2
    THEN [check_in |-> text.dates[1], check_out |-> text.dates[2]]
    ELSE IF Len(text.dates) = 1
    THEN [check_in |-> text.dates[1], check_out |-> NoneInt]
    ELSE [check_in |-> NoneInt, check_out |-> NoneInt]

\* DateExtractor.extract_dates: the first two tokens, only when there are two.
extract_dates(text) ==
    IF Len(text.dates) >= 2
    THEN [check_in |-> text.dates[1], check_out |-> text.dates[2]]
    ELSE [check_in |-> NoneInt, check_out |-> NoneInt]

\* DateExtractor.extract_guest_count: the first pattern that matches.
extract_guest_count(text) == text.guests

\* validate_dates accepting a check-out on the day of check-in.
validate_dates_allows_same_day(check_in, check_out) ==
    IF check_in = BadDate \/ check_out = BadDate
    THEN <<FALSE, "Invalid date format">>
    ELSE IF check_in < Today
    THEN <<FALSE, "Check-in date cannot be in the past">>
    ELSE IF check_out < check_in
    THEN <<FALSE, "Check-out date must be after check-in date">>
    ELSE IF check_out - check_in > MaxNights
    THEN <<FALSE, "Maximum stay is 30 nights">>
    ELSE <<TRUE, None>>

\* validate_dates rejecting a stay of exactly MaxNights nights.
validate_dates_max_exclusive(check_in, check_out) ==
    IF check_in = BadDate \/ check_out = BadDate
    THEN <<FALSE, "Invalid date format">>
    ELSE IF check_in < Today
    THEN <<FALSE, "Check-in date cannot be in the past">>
    ELSE IF check_out <= check_in
    THEN <<FALSE, "Check-out date must be after check-in date">>
    ELSE IF check_out - check_in >= MaxNights
    THEN <<FALSE, "Maximum stay is 30 nights">>
    ELSE <<TRUE, None>>

\* validate_dates: <<is_valid, error_message>>.
validate_dates(check_in, check_out) ==
    IF check_in = BadDate \/ check_out = BadDate
    THEN <<FALSE, "Invalid date format">>
    ELSE IF check_in < Today
    THEN <<FALSE, "Check-in date cannot be in the past">>
    ELSE IF check_out <= check_in
    THEN <<FALSE, "Check-out date must be after check-in date">>
    ELSE IF check_out - check_in > MaxNights
    THEN <<FALSE, "Maximum stay is 30 nights">>
    ELSE <<TRUE, None>>

----------------------------------------------------------------------------
(* PMS gateway (mock mode) *)

\* QloAppsClient._mock_check_availability: the catalogue rooms large enough.
RECURSIVE FilterRooms(_, _)
FilterRooms(rooms, guests) ==
    IF rooms = <<>> THEN <<>>
    ELSE IF RoomMaxGuests(Head(rooms)) >= guests
         THEN <<Head(rooms)>> \o FilterRooms(Tail(rooms), guests)
         ELSE FilterRooms(Tail(rooms), guests)

mock_check_availability(check_in, check_out, guests) == FilterRooms(MockRooms, guests)

\* QloAppsClient.create_booking: BookingDetails(**guest_details) rejects a
\* missing name, email, phone, date or guest count; room_id is not validated.
BookingDetailsValid(s) ==
    /\ s.guest_name /= None
    /\ s.guest_email /= None
    /\ s.guest_phone /= None
    /\ s.check_in_date /= NoneInt /\ s.check_in_date /= BadDate
    /\ s.check_out_date /= NoneInt /\ s.check_out_date /= BadDate
    /\ s.guest_count /= NoneInt

\* QloAppsClient._mock_create_booking
mock_create_booking == "CONF-0001"

\* The 'booking' objects a PMS answers POST /bookings with (an answer
\* without the key reads as the empty object), and a failed request.
HTTPError == [raised |-> TRUE, confirmation_number |-> None, id |-> None]

BookingResponses ==
    { [raised |-> FALSE, confirmation_number |-> cn, id |-> id] :
        cn \in {None, "", "CONF-2024-001"}, id \in {None, "BK123456"} }
    \cup {HTTPError}

\* QloAppsClient.create_booking: what the call returns, or that it raises.
create_booking(mock_mode, guest_details, response) ==
    IF ~BookingDetailsValid(guest_details)
    THEN [raised |-> TRUE, value |-> None]
    ELSE IF mock_mode
    THEN [raised |-> FALSE, value |-> mock_create_booking]
    ELSE IF response.raised
    THEN [raised |-> TRUE, value |-> None]
    ELSE [raised |-> FALSE,
          value  |-> IF response.confirmation_number \notin {None, ""}
                     THEN response.confirmation_number
                     ELSE response.id]

----------------------------------------------------------------------------
(* Nodes: each operator is the dict the node returns *)

\* chatbot_node returning the whole history with the response added.
chatbot_node_returns_history(s, ok) ==
    [s EXCEPT !.messages = s.messages \o
        << IF ok THEN AIMessage("reply") ELSE AIMessage("technical difficulties") >>]

\* chatbot_node marking the failure in current_step, as check_availability_node
\* does.
chatbot_node_marks_error(s, ok) ==
    IF ok
    THEN [s EXCEPT !.messages = << AIMessage("reply") >>]
    ELSE [s EXCEPT !.messages = << AIMessage("technical difficulties") >>,
                   !.current_step = "error"]

\* chatbot_node: one chat-completion call; the reply, or the apology when the
\* call raises.
chatbot_node(s, ok) ==
    [s EXCEPT !.messages =
        << IF ok THEN AIMessage("reply") ELSE AIMessage("technical difficulties") >>]

\* extract_info_node without the "if not already collected" conditions.
extract_info_node_overwrites(s) ==
    LET last_message == LastHuman(s.messages)
        dates == extract_dates(last_message)
        s1 == IF TruthyDate(dates.check_in)
              THEN [s EXCEPT !.check_in_date = dates.check_in] ELSE s
        s2 == IF TruthyDate(dates.check_out)
              THEN [s1 EXCEPT !.check_out_date = dates.check_out] ELSE s1
        guest_count == extract_guest_count(last_message)
        s3 == IF TruthyInt(guest_count)
              THEN [s2 EXCEPT !.guest_count = guest_count] ELSE s2
        has_all_dates == /\ TruthyDate(s3.check_in_date)
                         /\ TruthyDate(s3.check_out_date)
                         /\ TruthyInt(s3.guest_count)
    IN [s3 EXCEPT !.needs_dates = ~has_all_dates]

\* extract_info_node storing every guest count that was found
\* ("is not None" for "if guest_count").
extract_info_node_stores_zero(s) ==
    LET last_message == LastHuman(s.messages)
        dates == extract_dates(last_message)
        need  == ~TruthyDate(s.check_in_date) \/ ~TruthyDate(s.check_out_date)
        s1 == IF need /\ TruthyDate(dates.check_in)
              THEN [s EXCEPT !.check_in_date = dates.check_in] ELSE s
        s2 == IF need /\ TruthyDate(dates.check_out)
              THEN [s1 EXCEPT !.check_out_date = dates.check_out] ELSE s1
        guest_count == extract_guest_count(last_message)
        s3 == IF ~TruthyInt(s2.guest_count) /\ guest_count /= NoneInt
              THEN [s2 EXCEPT !.guest_count = guest_count] ELSE s2
        has_all_dates == /\ TruthyDate(s3.check_in_date)
                         /\ TruthyDate(s3.check_out_date)
                         /\ TruthyInt(s3.guest_count)
    IN [s3 EXCEPT !.needs_dates = ~has_all_dates]

\* extract_info_node
extract_info_node(s) ==
    LET last_message == LastHuman(s.messages)
        dates == extract_dates(last_message)
        need  == ~TruthyDate(s.check_in_date) \/ ~TruthyDate(s.check_out_date)
        s1 == IF need /\ TruthyDate(dates.check_in)
              THEN [s EXCEPT !.check_in_date = dates.check_in] ELSE s
        s2 == IF need /\ TruthyDate(dates.check_out)
              THEN [s1 EXCEPT !.check_out_date = dates.check_out] ELSE s1
        guest_count == extract_guest_count(last_message)
        s3 == IF ~TruthyInt(s2.guest_count) /\ TruthyInt(guest_count)
              THEN [s2 EXCEPT !.guest_count = guest_count] ELSE s2
        has_all_dates == /\ TruthyDate(s3.check_in_date)
                         /\ TruthyDate(s3.check_out_date)
                         /\ TruthyInt(s3.guest_count)
    IN [s3 EXCEPT !.needs_dates = ~has_all_dates]

\* validate_dates_node with the reset of check_out_date left out.
validate_dates_node_keeps_check_out(s) ==
    IF ~TruthyDate(s.check_in_date) \/ ~TruthyDate(s.check_out_date)
    THEN [s EXCEPT !.current_step = "needs_dates"]
    ELSE LET v == validate_dates(s.check_in_date, s.check_out_date)
         IN IF ~v[1]
            THEN [s EXCEPT !.messages = s.messages \o <<AIMessage(v[2])>>,
                           !.check_in_date = NoneInt,
                           !.current_step = "invalid_dates"]
            ELSE [s EXCEPT !.current_step = "dates_valid"]

\* validate_dates_node
validate_dates_node(s) ==
    IF ~TruthyDate(s.check_in_date) \/ ~TruthyDate(s.check_out_date)
    THEN [s EXCEPT !.current_step = "needs_dates"]
    ELSE LET v == validate_dates(s.check_in_date, s.check_out_date)
         IN IF ~v[1]
            THEN [s EXCEPT !.messages = s.messages \o <<AIMessage(v[2])>>,
                           !.check_in_date = NoneInt,
                           !.check_out_date = NoneInt,
                           !.current_step = "invalid_dates"]
            ELSE [s EXCEPT !.current_step = "dates_valid"]

\* check_availability_node storing None when the gateway returns no room.
check_availability_node_null_when_empty(s, ok) ==
    IF ok
    THEN LET available_rooms ==
                 mock_check_availability(s.check_in_date, s.check_out_date, s.guest_count)
         IN IF available_rooms /= <<>>
            THEN [s EXCEPT !.available_rooms = available_rooms,
                           !.current_step = "presenting_options",
                           !.messages = s.messages \o <<AIMessage("room options")>>]
            ELSE [s EXCEPT !.available_rooms = NoneRooms,
                           !.current_step = "no_availability",
                           !.messages = s.messages \o <<AIMessage("no rooms available")>>]
    ELSE [s EXCEPT !.messages = s.messages \o <<AIMessage("trouble checking availability")>>,
                   !.current_step = "error"]

\* check_availability_node; `ok` is FALSE when the gateway raises.
check_availability_node(s, ok) ==
    IF ok
    THEN LET available_rooms ==
                 mock_check_availability(s.check_in_date, s.check_out_date, s.guest_count)
         IN IF available_rooms /= <<>>
            THEN [s EXCEPT !.available_rooms = available_rooms,
                           !.current_step = "presenting_options",
                           !.messages = s.messages \o <<AIMessage("room options")>>]
            ELSE [s EXCEPT !.available_rooms = available_rooms,
                           !.current_step = "no_availability",
                           !.messages = s.messages \o <<AIMessage("no rooms available")>>]
    ELSE [s EXCEPT !.messages = s.messages \o <<AIMessage("trouble checking availability")>>,
                   !.current_step = "error"]

\* collect_guest_info_node; `found` are the fields the extraction LLM reports
\* (not NONE), `ok` is FALSE when the LLM call raises.
collect_guest_info_node(s, found, ok) ==
    IF ~ok THEN s
    ELSE LET s1 == IF "name" \in found THEN [s EXCEPT !.guest_name = "Jane Doe"] ELSE s
             s2 == IF "email" \in found
                   THEN [s1 EXCEPT !.guest_email = "jane@example.com"] ELSE s1
             s3 == IF "phone" \in found
                   THEN [s2 EXCEPT !.guest_phone = "+15551234567"] ELSE s2
             has_all_info == /\ Truthy(s3.guest_name)
                             /\ Truthy(s3.guest_email)
                             /\ Truthy(s3.guest_phone)
         IN [s3 EXCEPT !.needs_guest_info = ~has_all_info,
                       !.ready_to_book = has_all_info]

\* create_booking_node with the confirmation number stored on both branches.
create_booking_node_number_on_failure(s, ok, confirmation_number) ==
    IF ok
    THEN [s EXCEPT !.confirmation_number = confirmation_number,
                   !.booking_status = "confirmed",
                   !.current_step = "completed",
                   !.messages = s.messages \o <<AIMessage("booking confirmed")>>]
    ELSE [s EXCEPT !.confirmation_number = confirmation_number,
                   !.booking_status = "failed",
                   !.messages = s.messages \o <<AIMessage("booking error")>>]

\* create_booking_node; `ok` is FALSE when pms_client.create_booking raises,
\* confirmation_number is what it returns otherwise.
create_booking_node(s, ok, confirmation_number) ==
    IF ok
    THEN [s EXCEPT !.confirmation_number = confirmation_number,
                   !.booking_status = "confirmed",
                   !.current_step = "completed",
                   !.messages = s.messages \o <<AIMessage("booking confirmed")>>]
    ELSE [s EXCEPT !.booking_status = "failed",
                   !.messages = s.messages \o <<AIMessage("booking error")>>]

----------------------------------------------------------------------------
(* Routing functions (the graph's conditional edges) *)

\* The first offered room whose name or id occurs in the text, or None.
RECURSIVE MatchRoom(_, _)
MatchRoom(rooms, text) ==
    IF rooms = <<>> THEN None
    ELSE IF Head(rooms) \in text.rooms THEN Head(rooms)
    ELSE MatchRoom(Tail(rooms), text)

\* route_from_chatbot with a label "present_options" for offers that the
\* last message does not select from.
route_from_chatbot_present_options(s) ==
    IF s.current_step = "completed"
    THEN IF /\ s.messages /= <<>>
            /\ s.messages[Len(s.messages)].type = "human"
            /\ s.messages[Len(s.messages)].content.new
         THEN "extract_info"
         ELSE "end"
    ELSE IF s.needs_dates
    THEN "extract_info"
    ELSE IF /\ TruthyDate(s.check_in_date) /\ TruthyDate(s.check_out_date)
            /\ s.current_step /= "dates_valid"
            /\ s.current_step /= "presenting_options"
    THEN "validate_dates"
    ELSE IF s.current_step = "dates_valid"
    THEN "check_availability"
    ELSE IF /\ TruthyRooms(s.available_rooms)
            /\ s.current_step = "presenting_options"
    THEN IF MatchRoom(s.available_rooms, LastHuman(s.messages)) /= None
         THEN "collect_guest_info"
         ELSE "present_options"
    ELSE IF Truthy(s.selected_room_id) /\ s.needs_guest_info
    THEN "collect_guest_info"
    ELSE IF s.ready_to_book
    THEN "create_booking"
    ELSE "continue"

\* route_from_chatbot without the branch for a completed booking.
route_from_chatbot_ignores_completed(s) ==
    IF s.needs_dates
    THEN "extract_info"
    ELSE IF /\ TruthyDate(s.check_in_date) /\ TruthyDate(s.check_out_date)
            /\ s.current_step /= "dates_valid"
            /\ s.current_step /= "presenting_options"
    THEN "validate_dates"
    ELSE IF s.current_step = "dates_valid"
    THEN "check_availability"
    ELSE IF /\ TruthyRooms(s.available_rooms)
            /\ s.current_step = "presenting_options"
            /\ MatchRoom(s.available_rooms, LastHuman(s.messages)) /= None
    THEN "collect_guest_info"
    ELSE IF Truthy(s.selected_room_id) /\ s.needs_guest_info
    THEN "collect_guest_info"
    ELSE IF s.ready_to_book
    THEN "create_booking"
    ELSE "continue"

\* route_from_chatbot going on to the guest's details when the last message
\* names none of the offered rooms.
route_from_chatbot_advances_unmatched(s) ==
    IF s.current_step = "completed"
    THEN IF /\ s.messages /= <<>>
            /\ s.messages[Len(s.messages)].type = "human"
            /\ s.messages[Len(s.messages)].content.new
         THEN "extract_info"
         ELSE "end"
    ELSE IF s.needs_dates
    THEN "extract_info"
    ELSE IF /\ TruthyDate(s.check_in_date) /\ TruthyDate(s.check_out_date)
            /\ s.current_step /= "dates_valid"
            /\ s.current_step /= "presenting_options"
    THEN "validate_dates"
    ELSE IF s.current_step = "dates_valid"
    THEN "check_availability"
    ELSE IF /\ TruthyRooms(s.available_rooms)
            /\ s.current_step = "presenting_options"
    THEN "collect_guest_info"
    ELSE IF Truthy(s.selected_room_id) /\ s.needs_guest_info
    THEN "collect_guest_info"
    ELSE IF s.ready_to_book
    THEN "create_booking"
    ELSE "continue"

\* route_from_chatbot.  Its assignments to selected_room_id,
\* selected_room_name and current_step are made to the snapshot it is handed.
route_from_chatbot(s) ==
    IF s.current_step = "completed"
    THEN IF /\ s.messages /= <<>>
            /\ s.messages[Len(s.messages)].type = "human"
            /\ s.messages[Len(s.messages)].content.new
         THEN "extract_info"
         ELSE "end"
    ELSE IF s.needs_dates
    THEN "extract_info"
    ELSE IF /\ TruthyDate(s.check_in_date) /\ TruthyDate(s.check_out_date)
            /\ s.current_step /= "dates_valid"
            /\ s.current_step /= "presenting_options"
    THEN "validate_dates"
    ELSE IF s.current_step = "dates_valid"
    THEN "check_availability"
    ELSE IF /\ TruthyRooms(s.available_rooms)
            /\ s.current_step = "presenting_options"
            /\ MatchRoom(s.available_rooms, LastHuman(s.messages)) /= None
    THEN "collect_guest_info"
    ELSE IF Truthy(s.selected_room_id) /\ s.needs_guest_info
    THEN "collect_guest_info"
    ELSE IF s.ready_to_book
    THEN "create_booking"
    ELSE "continue"

\* route_from_validation taking the "valid" edge whatever the outcome.
route_from_validation_always_valid(s) == "valid"

\* route_from_validation
route_from_validation(s) ==
    IF s.current_step = "dates_valid" THEN "valid" ELSE "invalid"

\* route_from_guest_info
route_from_guest_info(s) ==
    IF s.ready_to_book THEN "create_booking" ELSE "continue"

\* route_from_booking
route_from_booking(s) ==
    IF s.booking_status = "confirmed" THEN "end" ELSE "continue"

\* _build_graph: the labels registered for the conditional edges of chatbot.
ChatbotLabels ==
    {"extract_info", "validate_dates", "check_availability", "collect_guest_info",
     "create_booking", "continue", "end"}

\* _build_graph: the node (or END) each edge label leads to.
ChatbotEdges(label) ==
    CASE label = "continue" -> "chatbot"
      [] label = "end" -> "END"
      [] OTHER -> label

ValidationEdges(label) ==
    IF label = "valid" THEN "check_availability" ELSE "chatbot"

GuestInfoEdges(label) ==
    IF label = "create_booking" THEN "create_booking" ELSE "chatbot"

BookingEdges(label) ==
    IF label = "end" THEN "END" ELSE "chatbot"

Nodes == {"chatbot", "extract_info", "validate_dates", "check_availability",
          "collect_guest_info", "create_booking"}

----------------------------------------------------------------------------
(* The adapters *)

\* json.dumps / json.loads of a dict of strings, integers, booleans, None and
\* lists of these: the text and the value read back from it.
json_dumps(data) == <<"json", data>>
json_loads(text) == text[2]

\* SessionManager.save_session: the keyspace after redis.setex (the value is
\* read back within its time to live).
save_session(redis_db, user_id, s) ==
    LET serializable_state ==
            [s EXCEPT !.messages =
                [i \in DOMAIN s.messages |->
                    [type    |-> IF s.messages[i].type = "human" THEN "human" ELSE "ai",
                     content |-> s.messages[i].content]]]
    IN [redis_db EXCEPT ![session_key(user_id)] = json_dumps(serializable_state)]

\* The message objects rebuilt from their dictionaries, in order; a
\* dictionary of another type is skipped.
load_messages(dicts) ==
    LET known == SelectSeq(dicts, LAMBDA msg : msg.type \in {"human", "ai"})
    IN [i \in DOMAIN known |->
           IF known[i].type = "human"
           THEN [type |-> "human", content |-> known[i].content]
           ELSE [type |-> "ai", content |-> known[i].content]]

\* SessionManager.get_session restoring the user's messages only.
get_session_humans_only(redis_db, user_id) ==
    LET session_data == redis_db[session_key(user_id)]
    IN IF session_data /= NoKey
       THEN LET data == json_loads(session_data)
            IN [data EXCEPT !.messages =
                   SelectSeq(load_messages(data.messages), LAMBDA m : m.type = "human")]
       ELSE NewSession

\* SessionManager.get_session
get_session(redis_db, user_id) ==
    LET session_data == redis_db[session_key(user_id)]
    IN IF session_data /= NoKey
       THEN LET data == json_loads(session_data)
            IN [data EXCEPT !.messages = load_messages(data.messages)]
       ELSE NewSession

\* SessionManager.clear_session
clear_session(redis_db, user_id) ==
    [redis_db EXCEPT ![session_key(user_id)] = NoKey]

\* process_message (lines 221-226) / _handle_user_input (lines 193-196):
\* the state handed to app.ainvoke for the user's text.
TurnInput(a, stored, text, user_phone) ==
    LET s1 == IF a = "whatsapp" /\ ~Truthy(stored.guest_phone)
              THEN [stored EXCEPT !.guest_phone = user_phone] ELSE stored
    IN [s1 EXCEPT !.messages = s1.messages \o <<HumanMessage(text)>>]

\* What the adapter keeps when app.ainvoke raises: process_message saved
\* nothing; _handle_user_input had already assigned the longer history to
\* self.agent_state['messages'].
AfterFailedTurn(a, stored, handed) ==
    IF a = "voice" THEN [stored EXCEPT !.messages = handed.messages] ELSE stored

----------------------------------------------------------------------------
(* Actions *)

\* A run of one node: the superstep counter and the node trace.
Step(node) ==
    /\ pc = node
    /\ steps < RecursionLimit
    /\ steps' = steps + 1
    /\ trace' = Append(trace, node)
    /\ UNCHANGED <<script, dates_cleared, redis, workers, call>>

\* The adapter receives a message and starts app.ainvoke at the entry point.
BeginTurn ==
    /\ pc = "idle"
    /\ IF script = <<>> THEN turn < MaxTurns ELSE turn < Len(script)
    /\ \E text \in (IF script = <<>> THEN UserTexts ELSE {script[turn + 1]}) :
         state' = TurnInput(adapter, session, text, "whatsapp:+15551234567")
    /\ session' = AfterFailedTurn(adapter, session, state')
    /\ pc' = "chatbot"
    /\ steps' = 0
    /\ turn' = turn + 1
    /\ llm_calls' = 0
    /\ avail_calls' = 0
    /\ book_calls' = 0
    /\ trace' = <<>>
    /\ dates_cleared' = (dates_cleared \/ state.current_step = "invalid_dates")
    /\ UNCHANGED <<adapter, faults, bookings, script, redis, workers, call>>

Chatbot ==
    /\ Step("chatbot")
    /\ \E ok \in BOOLEAN :
         /\ ok \/ faults < MaxFaults
         /\ faults' = IF ok THEN faults ELSE faults + 1
         /\ state' = ApplyUpdate(state, chatbot_node(state, ok))
    /\ llm_calls' = llm_calls + 1
    /\ pc' = ChatbotEdges(route_from_chatbot(state'))
    /\ UNCHANGED <<adapter, session, turn, avail_calls, book_calls, bookings>>

ExtractInfo ==
    /\ Step("extract_info")
    /\ state' = ApplyUpdate(state, extract_info_node(state))
    /\ pc' = "chatbot"
    /\ UNCHANGED <<adapter, session, turn, faults, llm_calls, avail_calls,
                   book_calls, bookings>>

ValidateDates ==
    /\ Step("validate_dates")
    /\ state' = ApplyUpdate(state, validate_dates_node(state))
    /\ pc' = ValidationEdges(route_from_validation(state'))
    /\ UNCHANGED <<adapter, session, turn, faults, llm_calls, avail_calls,
                   book_calls, bookings>>

CheckAvailability ==
    /\ Step("check_availability")
    /\ \E ok \in BOOLEAN :
         /\ ok \/ faults < MaxFaults
         /\ faults' = IF ok THEN faults ELSE faults + 1
         /\ state' = ApplyUpdate(state, check_availability_node(state, ok))
    /\ avail_calls' = avail_calls + 1
    /\ pc' = "chatbot"
    /\ UNCHANGED <<adapter, session, turn, llm_calls, book_calls, bookings>>

CollectGuestInfo ==
    /\ Step("collect_guest_info")
    /\ \E ok \in BOOLEAN, found \in SUBSET {"name", "email", "phone"} :
         /\ ok \/ (faults < MaxFaults /\ found = {})
         /\ faults' = IF ok THEN faults ELSE faults + 1
         /\ state' = ApplyUpdate(state, collect_guest_info_node(state, found, ok))
    /\ pc' = GuestInfoEdges(route_from_guest_info(state'))
    /\ UNCHANGED <<adapter, session, turn, llm_calls, avail_calls, book_calls,
                   bookings>>

CreateBooking ==
    /\ Step("create_booking")
    /\ \E ok \in BOOLEAN :
         /\ IF BookingDetailsValid(state) THEN ok \/ faults < MaxFaults ELSE ~ok
         /\ faults' = IF ok \/ ~BookingDetailsValid(state) THEN faults ELSE faults + 1
         /\ state' = ApplyUpdate(state, create_booking_node(state, ok, mock_create_booking))
         /\ bookings' = Append(bookings, <<state.selected_room_id, ok>>)
    /\ book_calls' = book_calls + 1
    /\ pc' = BookingEdges(route_from_booking(state'))
    /\ UNCHANGED <<adapter, session, turn, llm_calls, avail_calls>>

\* The run is still at a node when the recursion limit is reached.
RecursionError ==
    /\ pc \in Nodes
    /\ steps >= RecursionLimit
    /\ pc' = "GraphRecursionError"
    /\ UNCHANGED <<adapter, session, state, steps, turn, faults, llm_calls,
                   avail_calls, book_calls, bookings, trace, script, dates_cleared,
                   redis, workers, call>>

\* app.ainvoke returned: the adapter keeps the result.
\* (session_manager.save_session / self.agent_state = result)
FinishTurn ==
    /\ pc = "END"
    /\ session' = IF adapter = "whatsapp"
                  THEN LET user_id == user_id_of("whatsapp:+15551234567")
                       IN get_session(save_session(EmptyRedis, user_id, state), user_id)
                  ELSE state
    /\ pc' = "idle"
    /\ UNCHANGED <<adapter, state, steps, turn, faults, llm_calls, avail_calls,
                   book_calls, bookings, trace, script, dates_cleared,
                   redis, workers, call>>

\* app.ainvoke raised: the adapter's except branch replies with its apology.
AbortTurn ==
    /\ pc = "GraphRecursionError"
    /\ pc' = "idle"
    /\ UNCHANGED <<adapter, session, state, steps, turn, faults, llm_calls,
                   avail_calls, book_calls, bookings, trace, script, dates_cleared,
                   redis, workers, call>>

Next ==
    \/ BeginTurn
    \/ Chatbot
    \/ ExtractInfo
    \/ ValidateDates
    \/ CheckAvailability
    \/ CollectGuestInfo
    \/ CreateBooking
    \/ RecursionError
    \/ FinishTurn
    \/ AbortTurn

Spec == Init /\ [][Next]_vars

\* Conversations that follow a script, with services that never fail.
ScriptedInit ==
    /\ adapter \in {"whatsapp", "voice"}
    /\ session = NewSession
    /\ state = NewSession
    /\ pc = "idle"
    /\ steps = 0
    /\ turn = 0
    /\ faults = MaxFaults
    /\ llm_calls = 0
    /\ avail_calls = 0
    /\ book_calls = 0
    /\ bookings = <<>>
    /\ trace = <<>>
    /\ script \in Scripts
    /\ dates_cleared = FALSE
    /\ redis = EmptyRedis
    /\ workers = [w \in Workers |-> IdleWorker]
    /\ call = NoCall

ScriptedSpec == ScriptedInit /\ [][Next]_vars

----------------------------------------------------------------------------
(* extract_info_node on its own: the node is entered from chatbot with any  *)
(* combination of stored dates and guest count and any user message.        *)

\* User messages with no, one or two date tokens, and with no guest count,
\* "for 0 guests" or "for 3 guests".
ExtractTexts ==
    { Text("request", dates, guests, {}, FALSE) :
        dates \in { <<>>, <<Today + 3>>, <<Today + 3, Today + 4>> },
        guests \in { NoneInt, 0, 3 } }

ExtractStates ==
    { [NewSession EXCEPT !.check_in_date = pair[1],
                         !.check_out_date = pair[2],
                         !.guest_count = gc,
                         !.messages = << HumanMessage(text), AIMessage("reply") >>] :
        pair \in { <<NoneInt, NoneInt>>, <<Today + 1, Today + 2>> },
        gc \in {NoneInt, 2}, text \in ExtractTexts }

ExtractInit ==
    /\ adapter \in {"whatsapp", "voice"}
    /\ session = NewSession
    /\ state \in ExtractStates
    /\ pc = "extract_info"
    /\ steps = 1
    /\ turn = 1
    /\ faults = 0
    /\ llm_calls = 1
    /\ avail_calls = 0
    /\ book_calls = 0
    /\ bookings = <<>>
    /\ trace = << "chatbot" >>
    /\ script = <<>>
    /\ dates_cleared = FALSE
    /\ redis = EmptyRedis
    /\ workers = [w \in Workers |-> IdleWorker]
    /\ call = NoCall

ExtractSpec == ExtractInit /\ [][ExtractInfo]_vars

----------------------------------------------------------------------------
(* create_booking_node against either gateway: the mock, or the REST client *)
(* (mock_mode = False, "for production") with the answers of the PMS.       *)

\* States in which the graph reaches create_booking: dates, guest count and
\* the guest's details are stored and ready_to_book is set; the room
\* selection made in route_from_chatbot is not in the state.
BookingStates ==
    { [NewSession EXCEPT !.check_in_date = ci,
                         !.check_out_date = ci + nights,
                         !.guest_count = gc,
                         !.available_rooms = mock_check_availability(ci, ci + nights, gc),
                         !.guest_name = "Jane Doe",
                         !.guest_email = "jane@example.com",
                         !.guest_phone = "+15551234567",
                         !.current_step = "presenting_options",
                         !.needs_dates = FALSE,
                         !.needs_guest_info = FALSE,
                         !.ready_to_book = TRUE,
                         !.messages = << HumanMessage(Text("all", <<ci, ci + nights>>, gc,
                                                           {"room_201"}, FALSE)),
                                         AIMessage("reply") >>] :
        ci \in {Today, Today + 1}, nights \in {1, 2}, gc \in {1, 2} }

GatewayInit ==
    /\ adapter \in {"whatsapp", "voice"}
    /\ session = NewSession
    /\ state \in BookingStates
    /\ pc = "create_booking"
    /\ steps = 1
    /\ turn = 1
    /\ faults = 0
    /\ llm_calls = 1
    /\ avail_calls = 1
    /\ book_calls = 0
    /\ bookings = <<>>
    /\ trace = << "collect_guest_info" >>
    /\ script = <<>>
    /\ dates_cleared = FALSE
    /\ redis = EmptyRedis
    /\ workers = [w \in Workers |-> IdleWorker]
    /\ call \in [mock_mode : BOOLEAN, response : BookingResponses]

\* create_booking_node calling pms_client.create_booking of the configured
\* gateway.
GatewayCreateBooking ==
    /\ Step("create_booking")
    /\ LET result == create_booking(call.mock_mode, state, call.response)
       IN /\ state' = ApplyUpdate(state,
                          create_booking_node(state, ~result.raised, result.value))
          /\ bookings' = Append(bookings, <<state.selected_room_id, ~result.raised>>)
    /\ book_calls' = book_calls + 1
    /\ pc' = BookingEdges(route_from_booking(state'))
    /\ UNCHANGED <<adapter, session, turn, faults, llm_calls, avail_calls>>

GatewaySpec == GatewayInit /\ [][GatewayCreateBooking]_vars

----------------------------------------------------------------------------
(* The WhatsApp service: web workers serving requests concurrently.  Each   *)
(* request runs process_message (or the clear-session endpoint) in one      *)
(* worker; the workers share nothing but the Redis keyspace.  A graph run   *)
(* works on the worker's own copy of the state, so it is one step here; the *)
(* external services do not fail.                                           *)

\* Requests served in one behaviour.
MaxRequests == 3

\* app.ainvoke(s) as a function of the state handed in: the run from `node`
\* after n supersteps.  `found` is what the guest-info extraction reports.
RECURSIVE run_graph(_, _, _, _)
run_graph(s, node, n, found) ==
    IF node = "END" THEN [raised |-> FALSE, result |-> s]
    ELSE IF n >= RecursionLimit THEN [raised |-> TRUE, result |-> s]
    ELSE LET returned ==
                 CASE node = "chatbot" -> chatbot_node(s, TRUE)
                   [] node = "extract_info" -> extract_info_node(s)
                   [] node = "validate_dates" -> validate_dates_node(s)
                   [] node = "check_availability" -> check_availability_node(s, TRUE)
                   [] node = "collect_guest_info" -> collect_guest_info_node(s, found, TRUE)
                   [] node = "create_booking" ->
                          create_booking_node(s, BookingDetailsValid(s), mock_create_booking)
             s2 == ApplyUpdate(s, returned)
             next ==
                 CASE node = "chatbot" -> ChatbotEdges(route_from_chatbot(s2))
                   [] node = "extract_info" -> "chatbot"
                   [] node = "validate_dates" -> ValidationEdges(route_from_validation(s2))
                   [] node = "check_availability" -> "chatbot"
                   [] node = "collect_guest_info" ->
                          GuestInfoEdges(route_from_guest_info(s2))
                   [] node = "create_booking" -> BookingEdges(route_from_booking(s2))
         IN run_graph(s2, next, n + 1, found)

ainvoke(s, found) == run_graph(s, "chatbot", 0, found)

\* The messages users send: two complete booking requests (for different
\* rooms), a greeting, and the command "reset".
WorkerTexts ==
    { Text("all", <<Today + 1, Today + 2>>, 2, {"room_201"}, FALSE),
      Text("all", <<Today + 1, Today + 2>>, 2, {"room_101"}, FALSE),
      Text("hello", <<>>, NoneInt, {}, FALSE),
      Text("reset", <<>>, NoneInt, {}, FALSE) }

\* message_lower in ['reset', 'restart', 'start over', 'new booking']
IsResetCommand(text) == text.kind = "reset"

WorkerInit ==
    /\ adapter = "whatsapp"
    /\ session = NewSession
    /\ state = NewSession
    /\ pc = "idle"
    /\ steps = 0
    /\ turn = 0
    /\ faults = 0
    /\ llm_calls = 0
    /\ avail_calls = 0
    /\ book_calls = 0
    /\ bookings = <<>>
    /\ trace = <<>>
    /\ script = <<>>
    /\ dates_cleared = FALSE
    /\ redis = EmptyRedis
    /\ workers = [w \in Workers |-> IdleWorker]
    /\ call = NoCall

\* What a request leaves alone: the single-conversation variables.
WorkerFrame ==
    UNCHANGED <<adapter, session, state, pc, steps, faults, llm_calls, avail_calls,
                book_calls, bookings, trace, script, dates_cleared, call>>

\* whatsapp_webhook -> process_message up to the await: get_session, the
\* command check, the phone number and the user message.
ReceiveMessage(w) ==
    /\ workers[w].pc = "idle"
    /\ turn < MaxRequests
    /\ \E from_number \in Users, text \in WorkerTexts :
         LET user_id == user_id_of(from_number)
         IN workers' = [workers EXCEPT ![w] =
                IF IsResetCommand(text)
                THEN [pc |-> "clear_session", user_id |-> user_id]
                ELSE [pc |-> "ainvoke", user_id |-> user_id,
                      state |-> TurnInput("whatsapp", get_session(redis, user_id),
                                          text, from_number)]]
    /\ turn' = turn + 1
    /\ UNCHANGED redis
    /\ WorkerFrame

\* DELETE /api/clear-session/<user_id> arrives at a worker.
ReceiveClear(w) ==
    /\ workers[w].pc = "idle"
    /\ turn < MaxRequests
    /\ \E from_number \in Users :
         workers' = [workers EXCEPT ![w] =
                        [pc |-> "clear_session", user_id |-> user_id_of(from_number)]]
    /\ turn' = turn + 1
    /\ UNCHANGED redis
    /\ WorkerFrame

\* session_manager.clear_session(user_id), then the reply.
ClearSession(w) ==
    /\ workers[w].pc = "clear_session"
    /\ redis' = clear_session(redis, workers[w].user_id)
    /\ workers' = [workers EXCEPT ![w] = IdleWorker]
    /\ UNCHANGED turn
    /\ WorkerFrame

\* app.ainvoke returned: save_session, then the reply.
SaveSession(w) ==
    /\ workers[w].pc = "ainvoke"
    /\ \E found \in { {}, {"name", "email", "phone"} } :
         LET run == ainvoke(workers[w].state, found)
         IN /\ ~run.raised
            /\ redis' = save_session(redis, workers[w].user_id, run.result)
    /\ workers' = [workers EXCEPT ![w] = IdleWorker]
    /\ UNCHANGED turn
    /\ WorkerFrame

\* app.ainvoke raised: the except branch replies, nothing is saved.
ReplyError(w) ==
    /\ workers[w].pc = "ainvoke"
    /\ \E found \in { {}, {"name", "email", "phone"} } :
         ainvoke(workers[w].state, found).raised
    /\ workers' = [workers EXCEPT ![w] = IdleWorker]
    /\ UNCHANGED <<turn, redis>>
    /\ WorkerFrame

WorkerNext ==
    \E w \in Workers :
        \/ ReceiveMessage(w)
        \/ ReceiveClear(w)
        \/ ClearSession(w)
        \/ SaveSession(w)
        \/ ReplyError(w)

WorkerSpec == WorkerInit /\ [][WorkerNext]_vars

----------------------------------------------------------------------------
(* The commands of process_message: requests whose text is a command are    *)
(* answered without a run of the graph.  `call` holds the last request and  *)
(* its reply.                                                               *)

\* Command texts as users type them, and a text that is no exact command.
CommandTexts == {"status", " Status ", "STATUS", "help", "menu", "reset", "new booking"}

\* user_message.lower().strip()
lower_strip(user_message) ==
    CASE user_message \in {"status", " Status ", "STATUS"} -> "status"
      [] OTHER -> user_message

\* What _get_booking_status shows of a state.
StatusSummary(dates, guests, room, guest_name, confirmed, confirmation) ==
    [dates |-> dates, guests |-> guests, room |-> room, guest_name |-> guest_name,
     confirmed |-> confirmed, confirmation |-> confirmation]

NoSummary == StatusSummary(<<>>, NoneInt, None, None, FALSE, None)

\* The replies of process_message.
Reply(kind, summary) == [kind |-> kind, summary |-> summary]

\* _get_booking_status
get_booking_status(s) ==
    Reply("booking status",
          StatusSummary(
              IF TruthyDate(s.check_in_date) /\ TruthyDate(s.check_out_date)
              THEN <<s.check_in_date, s.check_out_date>> ELSE <<>>,
              IF TruthyInt(s.guest_count) THEN s.guest_count ELSE NoneInt,
              IF Truthy(s.selected_room_name) THEN s.selected_room_name ELSE None,
              IF Truthy(s.guest_name) THEN s.guest_name ELSE None,
              s.booking_status = "confirmed",
              IF s.booking_status = "confirmed" THEN s.confirmation_number ELSE None))

\* process_message for a command text: the keyspace afterwards and the reply.
\* 'status' evaluates `self._get_booking_status(state)` in a module-level
\* function: the name `self` is not defined, the NameError is caught by the
\* `except Exception` of process_message, which returns the generic apology.
process_command(redis_db, user_id, user_message) ==
    LET s == get_session(redis_db, user_id)
        message_lower == lower_strip(user_message)
    IN IF message_lower \in {"reset", "restart", "start over", "new booking"}
       THEN [redis |-> clear_session(redis_db, user_id),
             reply |-> Reply("welcome", NoSummary)]
       ELSE IF message_lower \in {"help", "menu"}
       THEN [redis |-> redis_db, reply |-> Reply("help menu", NoSummary)]
       ELSE [redis |-> redis_db, reply |-> Reply("error processing your request", NoSummary)]

\* Sessions the service has stored: the results of the turns that returned
\* (a complete request for either room, confirmed by the mock gateway).
StoredSessions ==
    { ainvoke(TurnInput("whatsapp", NewSession, text, from_number),
              {"name", "email", "phone"}).result :
        text \in { Text("all", <<Today + 1, Today + 2>>, 2, {"room_201"}, FALSE),
                   Text("all", <<Today + 1, Today + 2>>, 2, {"room_101"}, FALSE) },
        from_number \in Users }

NoRequest == [user_id |-> "", text |-> "", reply |-> Reply("", NoSummary)]

CommandInit ==
    /\ adapter = "whatsapp"
    /\ session = NewSession
    /\ state = NewSession
    /\ pc = "idle"
    /\ steps = 0
    /\ turn = 0
    /\ faults = 0
    /\ llm_calls = 0
    /\ avail_calls = 0
    /\ book_calls = 0
    /\ bookings = <<>>
    /\ trace = <<>>
    /\ script = <<>>
    /\ dates_cleared = FALSE
    /\ \E stored \in [Users -> StoredSessions \cup {NewSession}] :
         redis = [key \in SessionKeys |->
                    LET from_number == CHOOSE u \in Users : session_key(user_id_of(u)) = key
                    IN IF stored[from_number] = NewSession THEN NoKey
                       ELSE save_session(EmptyRedis, user_id_of(from_number),
                                         stored[from_number])[key]]
    /\ workers = [w \in Workers |-> IdleWorker]
    /\ call = NoRequest

\* whatsapp_webhook -> process_message for a command.
ProcessCommand ==
    /\ turn < MaxRequests
    /\ \E from_number \in Users, user_message \in CommandTexts :
         LET user_id == user_id_of(from_number)
             done == process_command(redis, user_id, user_message)
         IN /\ redis' = done.redis
            /\ call' = [user_id |-> user_id, text |-> user_message, reply |-> done.reply]
    /\ turn' = turn + 1
    /\ UNCHANGED <<adapter, session, state, pc, steps, faults, llm_calls, avail_calls,
                   book_calls, bookings, trace, script, dates_cleared, workers>>

CommandSpec == CommandInit /\ [][ProcessCommand]_vars

----------------------------------------------------------------------------
(* The voice adapter's handlers.  Every committed utterance starts an        *)
(* asyncio task running _handle_user_input, and the voice pipeline asks its  *)
(* LLM, LangGraphLLMAdapter.chat, for the reply to the last user message.    *)
(* All of them run on one event loop and yield at `await app.ainvoke`;       *)
(* `session` is self.agent_state, `script` the utterances committed so far,  *)
(* `trace` the utterances the controller was run for.                        *)

\* The per-utterance tasks that can be in flight, and the pipeline's LLM call.
Tasks == {"task1", "task2"}
Handlers == Tasks \cup {"chat"}

\* What callers say: a complete request, and a greeting.
VoiceTexts ==
    { Text("all", <<Today + 1, Today + 2>>, 2, {"room_201"}, FALSE),
      Text("hello", <<>>, NoneInt, {}, FALSE) }

\* No utterance is waiting for LangGraphLLMAdapter.chat.
NoUtterance == [pending |-> FALSE, text |-> Text("", <<>>, NoneInt, {}, FALSE)]

VoiceInit ==
    /\ adapter = "voice"
    /\ session = NewSession
    /\ state = NewSession
    /\ pc = "idle"
    /\ steps = 0
    /\ turn = 0
    /\ faults = 0
    /\ llm_calls = 0
    /\ avail_calls = 0
    /\ book_calls = 0
    /\ bookings = <<>>
    /\ trace = <<>>
    /\ script = <<>>
    /\ dates_cleared = FALSE
    /\ redis = EmptyRedis
    /\ workers = [h \in Handlers |-> IdleWorker]
    /\ call = NoUtterance

\* What the handlers leave alone: the variables of a single graph run.
VoiceFrame ==
    UNCHANGED <<adapter, state, pc, steps, faults, llm_calls, avail_calls, book_calls,
                dates_cleared, redis>>

\* Both handlers up to their await: the user message is added to
\* self.agent_state and app.ainvoke is started on it.
StartHandler(h, user_input) ==
    /\ session' = TurnInput("voice", session, user_input, None)
    /\ workers' = [workers EXCEPT ![h] = [pc |-> "ainvoke", state |-> session']]
    /\ trace' = Append(trace, user_input)

\* user_speech_committed: on_user_speech creates the task, which runs
\* _handle_user_input up to its await.
UserSpeechCommitted(h) ==
    /\ h \in Tasks
    /\ workers[h].pc = "idle"
    /\ turn < MaxRequests
    /\ \E msg \in VoiceTexts :
         /\ StartHandler(h, msg)
         /\ script' = Append(script, msg)
         /\ call' = [pending |-> TRUE, text |-> msg]
    /\ turn' = turn + 1
    /\ UNCHANGED bookings
    /\ VoiceFrame

\* The pipeline calls LangGraphLLMAdapter.chat for the last user message of
\* its chat context.
Chat ==
    /\ call.pending
    /\ workers["chat"].pc = "idle"
    /\ StartHandler("chat", call.text)
    /\ call' = [call EXCEPT !.pending = FALSE]
    /\ UNCHANGED <<turn, script, bookings>>
    /\ VoiceFrame

\* app.ainvoke is over in handler h: self.agent_state = result, or the
\* except branch when it raised.
HandlerResumes(h) ==
    /\ workers[h].pc = "ainvoke"
    /\ \E found \in { {}, {"name", "email", "phone"} } :
         LET run == ainvoke(workers[h].state, found)
         IN /\ session' = IF run.raised THEN session ELSE run.result
            /\ bookings' = IF /\ ~run.raised
                              /\ run.result.booking_status = "confirmed"
                              /\ workers[h].state.booking_status /= "confirmed"
                           THEN Append(bookings, <<run.result.selected_room_id, TRUE>>)
                           ELSE bookings
    /\ workers' = [workers EXCEPT ![h] = IdleWorker]
    /\ UNCHANGED <<turn, script, trace, call>>
    /\ VoiceFrame

VoiceNext ==
    \/ \E h \in Tasks : UserSpeechCommitted(h)
    \/ Chat
    \/ \E h \in Handlers : HandlerResumes(h)

VoiceSpec == VoiceInit /\ [][VoiceNext]_vars

----------------------------------------------------------------------------
(* WhatsAppInputParser.parse_room_selection on its own: one call for every  *)
(* offer list and user text below.                                          *)

\* Offers the list can hold: id, name.lower() and name.lower().split().
\* Two of them are named by a number.
ParseRooms ==
    { [id |-> "room_101", name |-> "standard room", words |-> {"standard", "room"}],
      [id |-> "room_201", name |-> "deluxe suite", words |-> {"deluxe", "suite"}],
      [id |-> "room_1", name |-> "1", words |-> {"1"}],
      [id |-> "room_2", name |-> "2", words |-> {"2"}] }

\* Longest offer list.
MaxOffers == 3

\* The lists of up to MaxOffers different offers.
OfferLists ==
    UNION { { rooms \in [1..n -> ParseRooms] :
                \A i, j \in 1..n : i /= j => rooms[i] /= rooms[j] } : n \in 0..MaxOffers }

\* User texts, as text.lower().strip().
ParseTexts == {"0", "1", "2", "3", "4", "2 please", "deluxe suite", "deluxe", "hello"}

\* str.isdigit and int of these texts.
isdigit(text) == text \in {"0", "1", "2", "3", "4"}

int(text) ==
    CASE text = "0" -> 0 [] text = "1" -> 1 [] text = "2" -> 2
      [] text = "3" -> 3 [] text = "4" -> 4

\* sub in text
Occurs(sub, text) ==
    \/ sub = text
    \/ <<sub, text>> \in { <<"2", "2 please">>,
                           <<"deluxe", "deluxe suite">>, <<"suite", "deluxe suite">> }

\* len(word)
WordLen(word) ==
    CASE word \in {"1", "2"} -> 1
      [] word = "room" -> 4
      [] word \in {"suite"} -> 5
      [] word \in {"deluxe"} -> 6
      [] word = "standard" -> 8

\* The id of the first room of the list whose index is in hits, None
\* without one: the loops over available_rooms return at the first match.
FirstRoom(available_rooms, hits) ==
    IF hits = {} THEN None
    ELSE available_rooms[CHOOSE i \in hits : \A j \in hits : i <= j].id

\* parse_room_selection looking for a room name before the number.
parse_room_selection_name_first(text, available_rooms) ==
    LET text_lower == text
        by_name == FirstRoom(available_rooms,
                             { i \in DOMAIN available_rooms :
                                   Occurs(available_rooms[i].name, text_lower) })
        by_word == FirstRoom(available_rooms,
                             { i \in DOMAIN available_rooms :
                                   \E word \in available_rooms[i].words :
                                       WordLen(word) > 3 /\ Occurs(word, text_lower) })
    IN IF by_name /= None THEN by_name
       ELSE IF /\ isdigit(text_lower)
               /\ 0 <= int(text_lower) - 1
               /\ int(text_lower) - 1 < Len(available_rooms)
       THEN available_rooms[int(text_lower)].id
       ELSE by_word

\* WhatsAppInputParser.parse_room_selection
parse_room_selection(text, available_rooms) ==
    LET text_lower == text
        by_name == FirstRoom(available_rooms,
                             { i \in DOMAIN available_rooms :
                                   Occurs(available_rooms[i].name, text_lower) })
        by_word == FirstRoom(available_rooms,
                             { i \in DOMAIN available_rooms :
                                   \E word \in available_rooms[i].words :
                                       WordLen(word) > 3 /\ Occurs(word, text_lower) })
    IN IF /\ isdigit(text_lower)
          /\ 0 <= int(text_lower) - 1
          /\ int(text_lower) - 1 < Len(available_rooms)
       THEN available_rooms[int(text_lower)].id
       ELSE IF by_name /= None THEN by_name
       ELSE by_word

ParseInit ==
    /\ adapter = "whatsapp"
    /\ session = NewSession
    /\ state = NewSession
    /\ pc = "idle"
    /\ steps = 0
    /\ turn = 0
    /\ faults = 0
    /\ llm_calls = 0
    /\ avail_calls = 0
    /\ book_calls = 0
    /\ bookings = <<>>
    /\ trace = <<>>
    /\ script = <<>>
    /\ dates_cleared = FALSE
    /\ redis = EmptyRedis
    /\ workers = [w \in Workers |-> IdleWorker]
    /\ \E text \in ParseTexts, available_rooms \in OfferLists :
         call = [text |-> text, available_rooms |-> available_rooms, result |-> "pending"]

ParseRoomSelection ==
    /\ call.result = "pending"
    /\ call' = [call EXCEPT !.result = parse_room_selection(call.text, call.available_rooms)]
    /\ UNCHANGED <<adapter, session, state, pc, steps, turn, faults, llm_calls,
                   avail_calls, book_calls, bookings, trace, script, dates_cleared,
                   redis, workers>>

ParseSpec == ParseInit /\ [][ParseRoomSelection]_vars

----------------------------------------------------------------------------
(* route_from_chatbot on its own: the decision for every combination of the *)
(* state fields it reads.                                                   *)

\* The values current_step takes in the code.
CurrentSteps ==
    {None, "needs_dates", "invalid_dates", "dates_valid", "presenting_options",
     "no_availability", "error", "room_selected", "completed"}

\* Histories: none, a greeting, a room name answered by the assistant, a room
\* name, a new-booking request, and a reply followed by a new-booking request.
RouteHistories ==
    { <<>>,
      << HumanMessage(Text("hello", <<>>, NoneInt, {}, FALSE)), AIMessage("reply") >>,
      << HumanMessage(Text("room", <<>>, NoneInt, {"room_201"}, FALSE)),
         AIMessage("reply") >>,
      << HumanMessage(Text("room", <<>>, NoneInt, {"room_201"}, FALSE)) >>,
      << HumanMessage(Text("another", <<>>, NoneInt, {}, TRUE)), AIMessage("reply") >>,
      << AIMessage("reply"), HumanMessage(Text("another", <<>>, NoneInt, {}, TRUE)) >> }

RouteStates ==
    { [NewSession EXCEPT !.current_step = step,
                         !.needs_dates = nd,
                         !.check_in_date = ci,
                         !.check_out_date = co,
                         !.available_rooms = rooms,
                         !.selected_room_id = sel,
                         !.needs_guest_info = ngi,
                         !.ready_to_book = rtb,
                         !.messages = msgs] :
        step \in CurrentSteps, nd \in BOOLEAN,
        ci \in {NoneInt, Today + 1}, co \in {NoneInt, Today + 2},
        rooms \in {NoneRooms, <<>>, <<"room_101">>, <<"room_101", "room_201">>},
        sel \in {None, "room_201"}, ngi \in BOOLEAN, rtb \in BOOLEAN,
        msgs \in RouteHistories }

RouteInit ==
    /\ adapter \in {"whatsapp", "voice"}
    /\ session = NewSession
    /\ state \in RouteStates
    /\ pc = "route_from_chatbot"
    /\ steps = 1
    /\ turn = 1
    /\ faults = 0
    /\ llm_calls = 1
    /\ avail_calls = 0
    /\ book_calls = 0
    /\ bookings = <<>>
    /\ trace = << "chatbot" >>
    /\ script = <<>>
    /\ dates_cleared = FALSE
    /\ redis = EmptyRedis
    /\ workers = [w \in Workers |-> IdleWorker]
    /\ call = NoCall

\* The conditional edge of chatbot: the label picks the next node.
RouteFromChatbot ==
    /\ pc = "route_from_chatbot"
    /\ pc' = ChatbotEdges(route_from_chatbot(state))
    /\ UNCHANGED <<adapter, session, state, steps, turn, faults, llm_calls,
                   avail_calls, book_calls, bookings, trace, script, dates_cleared,
                   redis, workers, call>>

RouteSpec == RouteInit /\ [][RouteFromChatbot]_vars

----------------------------------------------------------------------------
(* Properties *)

LastMessage(s) == s.messages[Len(s.messages)]

TurnOver == pc \in {"END", "GraphRecursionError"}

Executed(node) == \E i \in DOMAIN trace : trace[i] = node

\* C1: every turn terminates by itself: the run of the graph reaches END and
\* the returned history ends with an assistant message; no run is cut by the
\* recursion limit.
C1_EveryTurnTerminates ==
    /\ pc /= "GraphRecursionError"
    /\ pc = "END" => /\ state.messages /= <<>>
                     /\ LastMessage(state).type = "ai"

\* C2: after the three turns of the happy path, with services that never
\* fail, the booking is confirmed with a confirmation number, and
\* create_booking was called exactly once, for the Deluxe Suite.
C2_HappyPath ==
    (script = HappyPath /\ turn = Len(HappyPath) /\ pc = "idle")
        => /\ session.booking_status = "confirmed"
           /\ session.confirmation_number /= None
           /\ bookings = << <<"room_201", TRUE>> >>

\* C3: within one turn the chat-completion call of chatbot_node is made at
\* most once.
C3_OneChatCallPerTurn == llm_calls <= 1

\* C4: within one turn pms_client.check_availability is called at most once.
C4_OneAvailabilityCallPerTurn == avail_calls <= 1

\* C5: within one turn pms_client.create_booking is called at most once.
C5_OneBookingCallPerTurn == book_calls <= 1

AllGuestAndRoom(s) ==
    /\ Truthy(s.guest_name)
    /\ Truthy(s.guest_email)
    /\ Truthy(s.guest_phone)
    /\ Truthy(s.selected_room_id)

\* C6: at every node boundary and at every turn boundary, ready_to_book is
\* true exactly when guest_name, guest_email, guest_phone and
\* selected_room_id are all set.
C6_Readiness ==
    /\ state.ready_to_book <=> AllGuestAndRoom(state)
    /\ session.ready_to_book <=> AllGuestAndRoom(session)

HasAllDates(s) ==
    /\ TruthyDate(s.check_in_date)
    /\ TruthyDate(s.check_out_date)
    /\ TruthyInt(s.guest_count)

\* C7: in the state a turn ends with, needs_dates is true exactly when one of
\* check_in_date, check_out_date, guest_count is unset.
C7_NeedsDatesAtTurnEnd ==
    TurnOver => (state.needs_dates <=> ~HasAllDates(state))

\* C7, restricted to the turns whose run reached END.
C7_NeedsDatesAtEnd ==
    pc = "END" => (state.needs_dates <=> ~HasAllDates(state))

\* C8: in every state, a confirmation number is present only if the booking
\* status is confirmed.
C8_ConfirmationOnlyWhenConfirmed ==
    /\ state.confirmation_number /= None => state.booking_status = "confirmed"
    /\ session.confirmation_number /= None => session.booking_status = "confirmed"

C8_Witness ==
    /\ pc = "END"
    /\ state.confirmation_number /= None
    /\ state.booking_status = "confirmed"
    /\ \E i \in DOMAIN bookings : ~bookings[i][2]

\* C9: when validate_dates_node finds the stored pair invalid it appends an
\* apology naming the validator's reason ("past" for a check-in before
\* today) and sets both dates to null; guest count, room and guest fields
\* stay as they were.
C9_InvalidDatesCleared ==
    [][ ( /\ pc = "validate_dates"
          /\ trace' /= trace
          /\ TruthyDate(state.check_in_date) /\ TruthyDate(state.check_out_date)
          /\ ~validate_dates(state.check_in_date, state.check_out_date)[1] )
        => LET reason == validate_dates(state.check_in_date, state.check_out_date)[2]
           IN /\ validate_dates_node(state).messages
                     = Append(state.messages, AIMessage(reason))
              /\ LastMessage(state') = AIMessage(reason)
              /\ ( state.check_in_date /= BadDate /\ state.check_out_date /= BadDate
                   /\ state.check_in_date < Today )
                    => reason = "Check-in date cannot be in the past"
              /\ state'.check_in_date = NoneInt
              /\ state'.check_out_date = NoneInt
              /\ state'.guest_count = state.guest_count
              /\ state'.available_rooms = state.available_rooms
              /\ state'.selected_room_id = state.selected_room_id
              /\ state'.selected_room_name = state.selected_room_name
              /\ state'.guest_name = state.guest_name
              /\ state'.guest_email = state.guest_email
              /\ state'.guest_phone = state.guest_phone
      ]_vars

C9_Witness ==
    /\ pc = "chatbot"
    /\ script \in DateRequests
    /\ trace /= <<>>
    /\ trace[Len(trace)] = "validate_dates"
    /\ state.current_step = "invalid_dates"
    /\ state.check_in_date = NoneInt
    /\ state.check_out_date = NoneInt
    /\ state.guest_count = 2
    /\ LastMessage(state) = AIMessage("Check-in date cannot be in the past")

\* C10: once a validation failure has cleared the dates, a later turn whose
\* message contains a valid date pair runs extraction, stores the new pair,
\* validates it and checks availability for it.
C10_RecollectionAfterFailure ==
    LET text == LastHuman(state.messages)
    IN ( /\ dates_cleared
         /\ TurnOver
         /\ Len(text.dates) >= 2
         /\ validate_dates(text.dates[1], text.dates[2])[1] )
        => /\ Executed("extract_info")
           /\ Executed("validate_dates")
           /\ Executed("check_availability")
           /\ state.check_in_date = text.dates[1]
           /\ state.check_out_date = text.dates[2]

\* C11: when check_availability returns an empty sequence, available_rooms
\* is stored as the empty list (not None), a no-rooms-available message is
\* appended, and check_in_date, check_out_date and guest_count stay as they
\* were.
C11_NoRoomsStoredAsEmpty ==
    [][ ( /\ pc = "check_availability"
          /\ trace' /= trace
          /\ faults' = faults
          /\ mock_check_availability(state.check_in_date, state.check_out_date,
                                     state.guest_count) = <<>> )
        => /\ state'.available_rooms = <<>>
           /\ state'.available_rooms /= NoneRooms
           /\ check_availability_node(state, TRUE).messages
                  = Append(state.messages, AIMessage("no rooms available"))
           /\ LastMessage(state') = AIMessage("no rooms available")
           /\ state'.check_in_date = state.check_in_date
           /\ state'.check_out_date = state.check_out_date
           /\ state'.guest_count = state.guest_count
      ]_vars

C11_Witness ==
    /\ pc = "chatbot"
    /\ trace /= <<>>
    /\ trace[Len(trace)] = "check_availability"
    /\ state.available_rooms = <<>>
    /\ state.current_step = "no_availability"
    /\ LastMessage(state) = AIMessage("no rooms available")
    /\ state.check_in_date = Today + 1
    /\ state.check_out_date = Today + 2
    /\ state.guest_count = 5

\* C12: after a no-availability result, a later turn whose user message
\* contains a different valid date pair replaces the stored
\* check_in_date/check_out_date with the new pair, and the next availability
\* check is made, with the new pair rather than the old one.
C12_NewDatesAfterNoRooms ==
    ( /\ script \in NewDatesAfterNoRooms
      /\ turn = 2
      /\ TurnOver
      /\ validate_dates(script[1].dates[1], script[1].dates[2])[1]
      /\ mock_check_availability(script[1].dates[1], script[1].dates[2],
                                 script[1].guests) = <<>>
      /\ validate_dates(script[2].dates[1], script[2].dates[2])[1]
      /\ script[2].dates /= script[1].dates )
    => /\ state.check_in_date = script[2].dates[1]
       /\ state.check_out_date = script[2].dates[2]
       /\ Executed("check_availability")

\* C13: when create_booking fails once and then succeeds, the turn that
\* contains the first (failed) attempt ends with booking_status = "failed"
\* and no confirmation number; the second attempt is made only in a later
\* turn.
C13_FailedAttemptEndsTurn ==
    ( /\ TurnOver
      /\ book_calls >= 1
      /\ ~bookings[Len(bookings) - book_calls + 1][2] )
    => /\ state.booking_status = "failed"
       /\ state.confirmation_number = None
       /\ book_calls = 1

\* The step taken is an execution of validate_dates_node on a stored pair of
\* calendar dates.
ValidatesParsedPair ==
    /\ pc = "validate_dates"
    /\ trace' /= trace
    /\ TruthyDate(state.check_in_date) /\ TruthyDate(state.check_out_date)
    /\ state.check_in_date /= BadDate /\ state.check_out_date /= BadDate

\* C14 as stated: for any date pair with checkIn <= today or
\* checkOut <= checkIn, validate_dates fails and validate_dates_node clears
\* both dates, every time it is invoked on such a pair.
C14_TodayOrEarlierRejected ==
    [][ ( /\ ValidatesParsedPair
          /\ \/ state.check_in_date <= Today
             \/ state.check_out_date <= state.check_in_date )
        => /\ ~validate_dates(state.check_in_date, state.check_out_date)[1]
           /\ state'.check_in_date = NoneInt
           /\ state'.check_out_date = NoneInt
      ]_vars

\* C14 amended: for any date pair with checkIn < today or
\* checkOut <= checkIn, validate_dates fails and validate_dates_node clears
\* both dates, every time it is invoked on such a pair (a check-in of today
\* is accepted).
C14_PastOrUnorderedRejected ==
    [][ ( /\ ValidatesParsedPair
          /\ \/ state.check_in_date < Today
             \/ state.check_out_date <= state.check_in_date )
        => /\ ~validate_dates(state.check_in_date, state.check_out_date)[1]
           /\ state'.check_in_date = NoneInt
           /\ state'.check_out_date = NoneInt
      ]_vars

\* The second turn of a conversation repeating a request whose check-out is
\* on the day of check-in: rejected and cleared again.
C14_Witness ==
    /\ script \in RepeatedInvalidRequests
    /\ script[2].dates = <<Today + 1, Today + 1>>
    /\ turn = 2
    /\ dates_cleared
    /\ pc = "chatbot"
    /\ trace /= <<>>
    /\ trace[Len(trace)] = "validate_dates"
    /\ state.current_step = "invalid_dates"
    /\ state.check_in_date = NoneInt
    /\ state.check_out_date = NoneInt

\* C15: validate_dates applies its rules in order and reports the first that
\* fails: unparseable date -> invalid format; check-in before today -> past;
\* check-out not after check-in -> order; more than 30 nights -> too long.
\* It returns valid exactly when the dates parse, checkIn >= today,
\* checkOut > checkIn and checkOut - checkIn <= 30 (a check-in of today and a
\* stay of exactly 30 nights are valid, 31 nights is not).
C15_ValidationRules ==
    [][ ( /\ pc = "validate_dates"
          /\ trace' /= trace
          /\ TruthyDate(state.check_in_date) /\ TruthyDate(state.check_out_date) )
        => LET ci == state.check_in_date
               co == state.check_out_date
               parses == ci /= BadDate /\ co /= BadDate
               v == validate_dates(ci, co)
               rejected(reason) ==
                   /\ v = <<FALSE, reason>>
                   /\ state'.current_step = "invalid_dates"
                   /\ LastMessage(state') = AIMessage(reason)
           IN /\ ~parses => rejected("Invalid date format")
              /\ (parses /\ ci < Today)
                     => rejected("Check-in date cannot be in the past")
              /\ (parses /\ ci >= Today /\ co <= ci)
                     => rejected("Check-out date must be after check-in date")
              /\ (parses /\ ci >= Today /\ co > ci /\ co - ci > 30)
                     => rejected("Maximum stay is 30 nights")
              /\ (parses /\ ci >= Today /\ co > ci /\ co - ci <= 30)
                     <=> (v[1] /\ state'.current_step = "dates_valid")
      ]_vars

\* A stay of exactly 30 nights from today has been validated.
C15_Witness ==
    /\ pc = "check_availability"
    /\ trace[Len(trace)] = "validate_dates"
    /\ state.current_step = "dates_valid"
    /\ state.check_in_date = Today
    /\ state.check_out_date = Today + 30

\* C16: once check_in_date is set, a user message that supplies only a guest
\* count (no date token) leaves check_in_date and check_out_date unchanged;
\* extract_info_node never replaces an already-set guest_count, and never
\* replaces the dates when both are already set.
C16_ExtractionMonotone ==
    [][ ( pc = "extract_info" /\ trace' /= trace )
        => LET text == LastHuman(state.messages)
               dates_kept == /\ state'.check_in_date = state.check_in_date
                             /\ state'.check_out_date = state.check_out_date
           IN /\ (TruthyDate(state.check_in_date) /\ text.dates = <<>>)
                     => dates_kept
              /\ TruthyInt(state.guest_count)
                     => state'.guest_count = state.guest_count
              /\ ( /\ TruthyDate(state.check_in_date)
                   /\ TruthyDate(state.check_out_date) )
                     => dates_kept
      ]_vars

\* Dates and guest count were stored, the message names other dates and
\* another guest count, and extract_info_node has kept the stored values.
C16_Witness ==
    /\ pc = "chatbot"
    /\ trace = << "chatbot", "extract_info" >>
    /\ LastHuman(state.messages).dates = <<Today + 3, Today + 4>>
    /\ LastHuman(state.messages).guests = 3
    /\ state.check_in_date = Today + 1
    /\ state.check_out_date = Today + 2
    /\ state.guest_count = 2

\* A turn that started from a confirmed booking has reached END (the adapter
\* has not stored its result yet: `session` is the state before the turn).
EndAfterConfirmed ==
    /\ pc = "END"
    /\ session.booking_status = "confirmed"

\* C17: when booking_status = "confirmed" and the latest user message
\* contains "new" or "another", the turn resets the booking-specific fields
\* (dates, guest count, available and selected room, guest info, booking
\* status, confirmation number) while the message history is retained.
C17_NewBookingResets ==
    ( EndAfterConfirmed /\ LastHuman(state.messages).new )
    => /\ state.check_in_date = NoneInt
       /\ state.check_out_date = NoneInt
       /\ state.guest_count = NoneInt
       /\ ~TruthyRooms(state.available_rooms)
       /\ state.selected_room_id = None
       /\ state.selected_room_name = None
       /\ state.guest_name = None
       /\ state.guest_email = None
       /\ state.booking_status = None
       /\ state.confirmation_number = None
       /\ SubSeq(state.messages, 1, Len(session.messages)) = session.messages

\* C18: when booking_status = "confirmed" and the user message carries no
\* new-booking signal, the turn appends one closing assistant message and
\* changes no other state field, and invokes neither check_availability nor
\* create_booking.
C18_TerminalAfterConfirmation ==
    ( EndAfterConfirmed /\ ~LastHuman(state.messages).new )
    => LET handed == TurnInput(adapter,
                               IF adapter = "voice"
                               THEN [session EXCEPT !.messages =
                                        SubSeq(session.messages, 1,
                                               Len(session.messages) - 1)]
                               ELSE session,
                               LastHuman(state.messages), session.guest_phone)
       IN /\ Len(state.messages) = Len(handed.messages) + 1
          /\ SubSeq(state.messages, 1, Len(handed.messages)) = handed.messages
          /\ LastMessage(state).type = "ai"
          /\ [state EXCEPT !.messages = handed.messages] = handed
          /\ avail_calls = 0
          /\ book_calls = 0

C18_Witness ==
    /\ EndAfterConfirmed
    /\ turn = 2
    /\ LastHuman(state.messages) = Text("hello", <<>>, NoneInt, {}, FALSE)
    /\ trace = << "chatbot" >>
    /\ LastMessage(state) = AIMessage("reply")
    /\ state.booking_status = "confirmed"
    /\ state.confirmation_number = mock_create_booking

\* check_availability has raised in the current turn: its message is among
\* those the turn added to the history it started from.
AvailabilityRaised ==
    /\ pc /= "idle"
    /\ \E i \in DOMAIN state.messages :
           /\ i > Len(session.messages)
           /\ state.messages[i] = AIMessage("trouble checking availability")

\* C19: when check_availability raises, a generic message is appended and the
\* dates, guest count, available rooms, room selection and guest fields are
\* unchanged, so that the same dates are checked again on a later user turn:
\* the turn ends without a second availability call and returns the dates
\* and guest count to the adapter.
C19_SameDatesRetriedLater ==
    ( TurnOver /\ AvailabilityRaised )
    => /\ pc = "END"
       /\ avail_calls = 1
       /\ TruthyDate(state.check_in_date)
       /\ TruthyDate(state.check_out_date)
       /\ TruthyInt(state.guest_count)

\* C20: when the chat-completion call fails in chatbot_node, a generic
\* apology asking the user to repeat is appended to the history and no other
\* state field is changed by that node.
C20_ChatFailureAppendsApology ==
    [][ ( /\ pc = "chatbot"
          /\ trace' /= trace
          /\ faults' /= faults )
        => /\ chatbot_node(state, FALSE).messages
                  = << AIMessage("technical difficulties") >>
           /\ state'.messages
                  = Append(state.messages, AIMessage("technical difficulties"))
           /\ [state' EXCEPT !.messages = state.messages] = state
      ]_vars

\* The chat call has failed after dates and guest count had been extracted.
C20_Witness ==
    /\ pc /= "idle"
    /\ faults = 1
    /\ trace = << "chatbot", "extract_info", "chatbot" >>
    /\ LastMessage(state) = AIMessage("technical difficulties")
    /\ state.check_in_date = Today + 1
    /\ state.check_out_date = Today + 2
    /\ state.guest_count = 2
    /\ ~state.needs_dates

\* One of the external calls has raised in the current turn: the apology of
\* the node that caught it is among the messages the turn added.
FaultInTurn ==
    /\ pc /= "idle"
    /\ \E i \in DOMAIN state.messages :
           /\ i > Len(session.messages)
           /\ state.messages[i] \in { AIMessage("technical difficulties"),
                                      AIMessage("trouble checking availability"),
                                      AIMessage("booking error") }

\* C21: an exception raised by the chat backend or the PMS gateway during a
\* turn is converted into an apology and the turn still returns; the state
\* changes made in that turn (the appended user message included) are
\* retained in the state the adapter keeps for the next turn.
C21_FailureKeepsEarlierChanges ==
    [][ ( TurnOver /\ FaultInTurn /\ pc' = "idle" ) => session' = state ]_vars

IsPrefix(a, b) == Len(a) <= Len(b) /\ SubSeq(b, 1, Len(a)) = a

\* C23: when two messages of the same user are handled concurrently by
\* process_message on two workers, no update is lost: a save never removes
\* from the user's persisted session what an earlier turn has saved there
\* (the persisted history only grows until the session is cleared).
C23_NoLostUpdate ==
    [][ \A u \in Users :
          LET user_id == user_id_of(u)
              key == session_key(user_id)
          IN (redis[key] /= NoKey /\ redis'[key] /= NoKey)
                 => IsPrefix(get_session(redis, user_id).messages,
                             get_session(redis', user_id).messages)
      ]_vars

\* C24: conversations of different users are independent: a turn, a reset
\* or a session clear for user A reads and writes only A's session key and
\* leaves the stored session of every other user unchanged, under any
\* interleaving of the requests.
C24_UsersIndependent ==
    [][ \A u \in Users :
          LET user_id == user_id_of(u)
              key == session_key(user_id)
          IN /\ redis'[key] /= redis[key]
                  => \E w \in Workers : /\ workers[w].pc /= "idle"
                                        /\ workers[w].user_id = user_id
                                        /\ workers'[w] = IdleWorker
             /\ \A w \in Workers :
                  ( /\ workers[w].pc = "idle"
                    /\ workers'[w].pc = "ainvoke"
                    /\ workers'[w].user_id = user_id )
                  => \E text \in WorkerTexts :
                        workers'[w].state =
                            TurnInput("whatsapp",
                                      get_session([EmptyRedis EXCEPT ![key] = redis[key]],
                                                  user_id),
                                      text, u)
      ]_vars

\* Both users hold a session, each with its own booking request, and the
\* first user's session has taken a second message.
C24_Witness ==
    /\ turn = 3
    /\ \A w \in Workers : workers[w] = IdleWorker
    /\ redis[session_key("+15551234567")] /= NoKey
    /\ redis[session_key("+15557654321")] /= NoKey
    /\ LET a == get_session(redis, "+15551234567")
           b == get_session(redis, "+15557654321")
       IN /\ a.messages[1].content.rooms = {"room_201"}
          /\ b.messages[1].content.rooms = {"room_101"}
          /\ LastHuman(a.messages).kind = "hello"
          /\ b.booking_status = "confirmed"

\* C25: for any offer list and any user text that is a 1-based ordinal k
\* within the list's length, parse_room_selection returns the id of the k-th
\* offer, whether or not that offer's name or another offer's name could
\* also be matched from the text.
C25_OrdinalFirst ==
    ( /\ call.result \notin {"no call", "pending"}
      /\ isdigit(call.text)
      /\ int(call.text) >= 1
      /\ int(call.text) <= Len(call.available_rooms) )
    => call.result = call.available_rooms[int(call.text)].id

\* The text "2" against a list whose first offer is named "2": the second
\* offer is returned.
C25_Witness ==
    /\ call.text = "2"
    /\ Len(call.available_rooms) = 3
    /\ call.available_rooms[1].name = "2"
    /\ call.available_rooms[2].name = "standard room"
    /\ call.result = "room_101"

\* C26: the history is append-only inside the controller: after every node
\* execution the previous history is a prefix of the new one; a node that
\* emits a message lengthens it by exactly that message, and a node that
\* emits none (extraction, successful validation, guest-info collection)
\* leaves it unchanged; no message is dropped, reordered or duplicated.
C26_HistoryAppendOnly ==
    [][ ( pc \in Nodes /\ trace' /= trace )
        => /\ IsPrefix(state.messages, state'.messages)
           /\ Len(state'.messages) <= Len(state.messages) + 1
           /\ ( \/ pc \in {"extract_info", "collect_guest_info"}
                \/ (pc = "validate_dates" /\ state'.current_step = "dates_valid") )
                  => state'.messages = state.messages
      ]_vars

\* C27: the decision procedure is deterministic and total: for every
\* combination of the state fields it reads, route_from_chatbot returns one
\* label, the label is one of those registered for the chatbot node, and the
\* next node is the one registered for it (a function of the state alone).
C27_RoutingTotal ==
    [][ pc = "route_from_chatbot"
        => /\ route_from_chatbot(state) \in ChatbotLabels
           /\ pc' = ChatbotEdges(route_from_chatbot(state))
           /\ pc' \in Nodes \cup {"END"}
      ]_vars

\* Offers are presented, the last user message selects none of them and
\* nothing else is pending: the decision was "continue".
C27_Witness ==
    /\ pc = "chatbot"
    /\ trace = << "chatbot" >>
    /\ steps = 1
    /\ state.current_step = "presenting_options"
    /\ state.available_rooms = <<"room_101">>
    /\ ~state.needs_dates
    /\ ~state.ready_to_book
    /\ state.selected_room_id = None
    /\ LastHuman(state.messages).rooms = {"room_201"}

\* C28: when options are being presented and the latest user message
\* contains an offered room's name or id, selected_room_id and
\* selected_room_name are set to that offer and are visible to the following
\* guest-info and booking steps; and in every reachable state a non-null
\* selected_room_id is the id of an offer in available_rooms, with
\* selected_room_name that offer's name.
C28_SelectionTakesEffect ==
    /\ ( /\ pc \in {"collect_guest_info", "create_booking"}
         /\ TruthyRooms(state.available_rooms)
         /\ MatchRoom(state.available_rooms, LastHuman(state.messages)) /= None )
       => LET room == MatchRoom(state.available_rooms, LastHuman(state.messages))
          IN /\ state.selected_room_id = room
             /\ state.selected_room_name = RoomName(room)
    /\ Truthy(state.selected_room_id)
       => /\ TruthyRooms(state.available_rooms)
          /\ \E i \in DOMAIN state.available_rooms :
                 state.available_rooms[i] = state.selected_room_id
          /\ state.selected_room_name = RoomName(state.selected_room_id)

\* C29: create_booking is invoked only in a state where guest_name,
\* guest_email, guest_phone, check_in_date, check_out_date, guest_count and
\* selected_room_id are all non-null, and the room_id passed is the id of a
\* room that an availability check offered for the stored dates.
C29_BookingPreconditions ==
    [][ ( pc = "create_booking" /\ trace' /= trace )
        => /\ Truthy(state.guest_name)
           /\ Truthy(state.guest_email)
           /\ Truthy(state.guest_phone)
           /\ TruthyDate(state.check_in_date)
           /\ TruthyDate(state.check_out_date)
           /\ TruthyInt(state.guest_count)
           /\ Truthy(state.selected_room_id)
           /\ Executed("check_availability")
           /\ \E i \in DOMAIN state.available_rooms :
                  state.available_rooms[i] = bookings'[Len(bookings')][1]
      ]_vars

\* C30: check_availability is invoked only with a non-null check_in_date,
\* check_out_date and guest_count, and only for a date pair that
\* validate_dates accepted earlier in the same turn; it is never invoked
\* while needs_dates is true.
C30_AvailabilityPreconditions ==
    [][ ( pc = "check_availability" /\ trace' /= trace )
        => /\ TruthyDate(state.check_in_date)
           /\ TruthyDate(state.check_out_date)
           /\ TruthyInt(state.guest_count)
           /\ ~state.needs_dates
           /\ Executed("validate_dates")
           /\ state.current_step = "dates_valid"
           /\ validate_dates(state.check_in_date, state.check_out_date)[1]
      ]_vars

\* The gateway failed once; the second availability call of the turn was
\* made after the dates had been validated again.
C30_Witness ==
    /\ pc = "chatbot"
    /\ avail_calls = 2
    /\ Len(trace) >= 2
    /\ trace[Len(trace) - 1] = "validate_dates"
    /\ trace[Len(trace)] = "check_availability"
    /\ state.current_step = "presenting_options"
    /\ \E i \in DOMAIN state.messages :
           state.messages[i] = AIMessage("trouble checking availability")

\* The offers for the stored triple have been presented.
OffersPresented(s) ==
    /\ TruthyRooms(s.available_rooms)
    /\ TruthyDate(s.check_in_date)
    /\ TruthyDate(s.check_out_date)
    /\ TruthyInt(s.guest_count)

\* C31: for an unchanged validated triple (check_in_date, check_out_date,
\* guest_count) the availability operation is invoked at most once: a
\* check_availability step is the first of its turn, and once offers have
\* been presented no later step re-runs validate_dates or
\* check_availability or replaces available_rooms while the triple stays.
C31_AvailabilityOncePerTriple ==
    [][ /\ ( pc = "check_availability" /\ trace' /= trace )
             => ~Executed("check_availability")
        /\ ( /\ OffersPresented(state)
             /\ pc \in Nodes
             /\ trace' /= trace
             /\ state'.check_in_date = state.check_in_date
             /\ state'.check_out_date = state.check_out_date
             /\ state'.guest_count = state.guest_count )
             => /\ pc \notin {"validate_dates", "check_availability"}
                /\ state'.available_rooms = state.available_rooms
      ]_vars

\* C32: no duplicate booking: once booking_status = "confirmed", in the
\* state of the turn or in the state the adapter keeps, no step of that turn
\* or of a later turn runs create_booking, whatever the user sends, and the
\* gateway holds one booking.
C32_NoDuplicateBooking ==
    [][ /\ ( pc = "create_booking" /\ trace' /= trace )
             => /\ state.booking_status /= "confirmed"
                /\ session.booking_status /= "confirmed"
        /\ ( state.booking_status = "confirmed" \/ session.booking_status = "confirmed" )
             => /\ bookings' = bookings
                /\ book_calls' <= book_calls
      ]_vars

\* A second turn has run to its end on a confirmed booking, on a message
\* that asks for a new booking, and the gateway still holds one booking.
C32_Witness ==
    /\ pc = "idle"
    /\ turn = 2
    /\ session.booking_status = "confirmed"
    /\ state.booking_status = "confirmed"
    /\ LastHuman(state.messages).new
    /\ trace = << "chatbot" >>
    /\ book_calls = 0
    /\ Len(bookings) = 1

\* C33: whenever booking_status = "confirmed", confirmation_number is
\* non-null, also when the gateway's create_booking returns without raising
\* but yields no confirmation value.
C33_ConfirmedHasNumber ==
    state.booking_status = "confirmed" => state.confirmation_number /= None

\* Offers are being presented and the latest user message names none of them.
OffersUnmatched(s) ==
    /\ s.current_step = "presenting_options"
    /\ TruthyRooms(s.available_rooms)
    /\ MatchRoom(s.available_rooms, LastHuman(s.messages)) = None

\* C34: no match, no advance: when offers are being presented and the latest
\* user message matches no offered room, every further step of the turn
\* leaves selected_room_id null and available_rooms, the dates and
\* guest_count unchanged, and is neither check_availability nor
\* create_booking.
C34_NoMatchNoAdvance ==
    [][ ( OffersUnmatched(state) /\ pc \in Nodes /\ trace' /= trace )
        => /\ pc \notin {"check_availability", "create_booking"}
           /\ avail_calls' = avail_calls
           /\ book_calls' = book_calls
           /\ state.selected_room_id = None
           /\ state'.selected_room_id = None
           /\ state'.available_rooms = state.available_rooms
           /\ state'.check_in_date = state.check_in_date
           /\ state'.check_out_date = state.check_out_date
           /\ state'.guest_count = state.guest_count
           /\ OffersUnmatched(state')
      ]_vars

\* The turn has gone on from unmatched offers until it was cut: one
\* availability call, no booking call, no room selected.
C34_Witness ==
    /\ pc = "GraphRecursionError"
    /\ OffersUnmatched(state)
    /\ state.selected_room_id = None
    /\ avail_calls = 1
    /\ book_calls = 0
    /\ trace[Len(trace)] = "chatbot"
    /\ trace[Len(trace) - 1] = "chatbot"

\* C35: single-date utterances: when the user message contains exactly one
\* date token, extract_info stores it in whichever of check_in_date /
\* check_out_date is still unset, check-in first.
C35_SingleDateFillsUnset ==
    [][ ( /\ pc = "extract_info"
          /\ trace' /= trace
          /\ Len(LastHuman(state.messages).dates) = 1 )
        => LET token == LastHuman(state.messages).dates[1]
           IN IF ~TruthyDate(state.check_in_date)
              THEN /\ state'.check_in_date = token
                   /\ state'.check_out_date = state.check_out_date
              ELSE IF ~TruthyDate(state.check_out_date)
              THEN /\ state'.check_in_date = state.check_in_date
                   /\ state'.check_out_date = token
              ELSE /\ state'.check_in_date = state.check_in_date
                   /\ state'.check_out_date = state.check_out_date
      ]_vars

\* C36: the controller never holds half a date pair: in every state at a
\* node boundary, and in the state the adapter keeps, check_in_date and
\* check_out_date are either both null or both non-null.
C36_NoHalfDatePair ==
    /\ TruthyDate(state.check_in_date) <=> TruthyDate(state.check_out_date)
    /\ TruthyDate(session.check_in_date) <=> TruthyDate(session.check_out_date)

\* The second of two single-date messages has gone through extract_info and
\* no date is stored.
C36_Witness ==
    /\ turn = 2
    /\ pc = "chatbot"
    /\ trace = << "chatbot", "extract_info" >>
    /\ Len(LastHuman(state.messages).dates) = 1
    /\ state.check_in_date = NoneInt
    /\ state.check_out_date = NoneInt

\* C37: guest_count is a positive integer whenever it is non-null: no
\* sequence of user messages (including "0 guests") makes the controller
\* store a guest_count below 1, and needs_dates is never cleared with a zero
\* guest count.
C37_GuestCountPositive ==
    /\ state.guest_count /= NoneInt => state.guest_count >= 1
    /\ session.guest_count /= NoneInt => session.guest_count >= 1
    /\ ~state.needs_dates => state.guest_count >= 1
    /\ ~session.needs_dates => session.guest_count >= 1

\* "... for 0 guests" has gone through extract_info: the dates are stored,
\* the guest count is not, and needs_dates is still set.
C37_Witness ==
    /\ pc = "chatbot"
    /\ trace /= <<>>
    /\ trace[Len(trace)] = "extract_info"
    /\ LastHuman(state.messages).guests = 0
    /\ state.check_in_date = Today + 1
    /\ state.check_out_date = Today + 2
    /\ state.guest_count = NoneInt
    /\ state.needs_dates

\* C38: the 'status' command returns the booking-status summary built from
\* the stored session (dates, guests, room, guest name, and the confirmation
\* number when confirmed), never the generic error reply, without invoking
\* the controller and without modifying the stored session.
C38_StatusCommand ==
    [][ ( turn' /= turn /\ lower_strip(call'.text) = "status" )
        => /\ call'.reply = get_booking_status(get_session(redis, call'.user_id))
           /\ call'.reply.kind /= "error processing your request"
           /\ redis' = redis
           /\ llm_calls' = llm_calls
           /\ trace' = trace
      ]_vars

\* All handlers of the voice adapter have completed.
HandlersDone ==
    /\ \A h \in DOMAIN workers : workers[h].pc = "idle"
    /\ ~call.pending

\* C39: in the voice adapter each committed user utterance is appended to
\* the history once and runs the controller once, and overlapping handlers
\* never lose an update: after all of them complete, agent_state contains
\* every user message and the field changes of every turn.
C39_VoiceHandlers ==
    /\ Len(trace) <= Len(script)
    /\ HandlersDone
         => /\ Len(trace) = Len(script)
            /\ \A i \in DOMAIN script :
                   \E j \in DOMAIN session.messages :
                       session.messages[j] = HumanMessage(script[i])
            /\ bookings /= <<>> => session.booking_status = "confirmed"

====
